---- MODULE Spec2Model ----
(***************************************************************************)
(* Funding-rate bot (funding_rate_fetch.py): the orchestrator loop         *)
(* run_bot, the entry pipeline place_long_position, the close routine      *)
(* square_off_all, the selector and the window scheduler.                  *)
(*                                                                         *)
(* Units: time in whole seconds since a UTC midnight; rates in 1/1000      *)
(* (-3 is -0.003); prices and balances in whole USDT; quantities in        *)
(* 1/1000 of a contract; notionals in cents.                               *)
(***************************************************************************)
EXTENDS Integers, Sequences, FiniteSets, TLC

(* ------------------------------ bounds --------------------------------- *)
MaxRun == 4800
MaxLatency == 1
MaxManual == 1
MaxFaults == 1
MaxOpsCalls == 3
MaxTicks == 2

(* ------------------------- program constants --------------------------- *)
FUNDING_RATE_THRESHOLD == -3
MINIMUM_BALANCE == 10
COOLDOWN_MINUTES == 5
TIE_TOLERANCE == 3
SMART_WAIT_LIMIT == 3600
RESCAN_MARK == 3000
ENTRY_MARK == 2700
EXIT_LEAD == 60
EXIT_POLL_CAP == 60
POSITION_RECHECK == 30
HOURLY_SLEEP == 3600
ERROR_BACKOFF == 60
API_RETRY_SLEEP == 60
VALIDATION_PAUSE == 2
CLOSE_PAUSE == 3
REPORT_PERIOD == 43200
DEFAULT_MIN_QTY == 1
DEFAULT_PRECISION == 3

(* ------------------------------ universe ------------------------------- *)
Symbols == {"A", "B"}
\* the order in which the gateway lists symbols and positions
SymbolOrder == <<"A", "B">>
\* hours between the two latest settlements in the gateway's funding history
FundingGap == [s \in Symbols |-> IF s = "A" THEN 4 ELSE 8]
Rates == {-5, -4, -2}
Prices == {0, 20, 25}
Balances == {5, 100}
SymbolInfos == {[min_qty |-> DEFAULT_MIN_QTY, precision |-> DEFAULT_PRECISION],
                [min_qty |-> 6000, precision |-> 0]}
StartTimes == {10810, 25210, 25920}
Latency == 0 .. MaxLatency
\* seconds one fetch_funding_rates call over all symbols takes: the latency
\* of one call, or the whole window between the two marks (and a second less)
SlowFetch == RESCAN_MARK - ENTRY_MARK
FetchLatency == Latency \cup {SlowFetch - 1, SlowFetch}
ManualAmt == 1000

NoTime == -1
NoEntry == [entry_price |-> 0, quantity |-> 0, entry_amount |-> 0,
            entry_time |-> NoTime, exit_time |-> NoTime]
NoPosition == [amt |-> 0, owner |-> "none", settle |-> NoTime]

(* ------------------------------ helpers -------------------------------- *)
Min(a, b) == IF a <= b THEN a ELSE b

IndexOf(s) == CHOOSE i \in 1 .. Len(SymbolOrder) : SymbolOrder[i] = s

\* first element of S in gateway (dict insertion) order
FirstOf(S) == CHOOSE s \in S : \A u \in S : IndexOf(s) <= IndexOf(u)

Pow10(p) == IF p = 0 THEN 1 ELSE IF p = 1 THEN 10 ELSE IF p = 2 THEN 100 ELSE 1000

\* Python round(): nearest, ties to even, of n / d for n >= 0, d > 0
RoundDiv(n, d) ==
    LET q == n \div d
        r == n % d
    IN  IF 2 * r < d THEN q
        ELSE IF 2 * r > d THEN q + 1
        ELSE IF q % 2 = 0 THEN q ELSE q + 1

(* ------------------------- gateway wrappers ---------------------------- *)
\* check_api_connection answering True whatever the ping did
check_api_connection_Optimistic(pingOk) == TRUE

\* check_api_connection: ping; an exception is reported as False
check_api_connection(pingOk) == pingOk

\* get_wallet_equity: USDT balance, 0.0 when the call fails
get_wallet_equity(ok, balance) == IF ok THEN balance ELSE 0

\* get_funding_interval: 4 when the history gap is <= 5 h, else 8;
\* 8 when the history call fails
get_funding_interval(ok, gap) == IF ok THEN (IF gap <= 5 THEN 4 ELSE 8) ELSE 8

\* get_symbol_info: the exchange filters, or the defaults when the call fails
get_symbol_info(ok, info) ==
    IF ok THEN info
    ELSE [min_qty |-> DEFAULT_MIN_QTY, precision |-> DEFAULT_PRECISION]

\* position_exists: any non-zero position; True when the query fails
position_exists_NoFailClosed(ok, pos) ==
    IF ok THEN \E s \in Symbols : pos[s].amt # 0 ELSE FALSE

position_exists(ok, pos) ==
    IF ok THEN \E s \in Symbols : pos[s].amt # 0 ELSE TRUE

\* recently_exited: elapsed minutes since the recorded exit < cooldown
\* (elapsed / 60 < 5 compared on seconds: elapsed < 5 * 60)
recently_exited_Inclusive(symbol, t, exits) ==
    IF exits[symbol] # NoTime
    THEN (t - exits[symbol]) <= COOLDOWN_MINUTES * 60
    ELSE FALSE

recently_exited(symbol, t, exits) ==
    IF exits[symbol] # NoTime
    THEN (t - exits[symbol]) < COOLDOWN_MINUTES * 60
    ELSE FALSE

(* --------------------------- window scheduler -------------------------- *)
\* seconds_to_next_funding(interval) evaluated at clock reading t
\* the next settlement taken on the same day also when it is past midnight
seconds_to_next_funding_SameDay(interval, t) ==
    LET day == t \div 86400
        hour == (t % 86400) \div 3600
        next_hour == IF interval = 4 THEN ((hour \div 4) + 1) * 4
                     ELSE ((hour \div 8) + 1) * 8
        next_funding_time == IF next_hour >= 24 THEN day * 86400
                             ELSE day * 86400 + next_hour * 3600
    IN  next_funding_time - t

seconds_to_next_funding(interval, t) ==
    LET day == t \div 86400
        hour == (t % 86400) \div 3600
        next_hour == IF interval = 4 THEN ((hour \div 4) + 1) * 4
                     ELSE ((hour \div 8) + 1) * 8
        next_funding_time == IF next_hour >= 24 THEN (day + 1) * 86400
                             ELSE day * 86400 + next_hour * 3600
    IN  next_funding_time - t

(* ------------------------------ selector ------------------------------- *)
\* fetch_funding_rates: a dict over the symbols whose mark-price call
\* succeeded; empty when the symbol listing fails
fetch_funding_rates(infoOk, marks, histOk) ==
    IF ~infoOk THEN [s \in {} |-> 0]
    ELSE [s \in {u \in Symbols : marks[u].ok} |->
             [rate |-> marks[s].rate,
              interval |-> get_funding_interval(histOk[s], FundingGap[s])]]

\* the filter with the boundary rate left out
filter_eligible_symbols_Strict(rates, threshold) ==
    [s \in {u \in DOMAIN rates : rates[u].rate < threshold} |-> rates[s]]

filter_eligible_symbols(rates, threshold) ==
    [s \in {u \in DOMAIN rates : rates[u].rate <= threshold} |-> rates[s]]

NoCoin == [symbol |-> "none", rate |-> 0, interval |-> 0, time_left |-> 0]

\* lines 169-185 with the tolerance left out: the most negative rate of all
NearestOf_RateOnly(coins_with_time) ==
    LET lowest == {s \in DOMAIN coins_with_time :
                     \A u \in DOMAIN coins_with_time :
                        coins_with_time[s].rate <= coins_with_time[u].rate}
        pick == FirstOf(lowest)
    IN  [symbol |-> pick, rate |-> coins_with_time[pick].rate,
         interval |-> coins_with_time[pick].interval,
         time_left |-> coins_with_time[pick].time_left]

\* lines 169-185: the choice among the candidates, each with the time_left
\* computed for it; min(..., key=rate) takes the first listed of equal rates
NearestOf(coins_with_time) ==
    LET tl(s) == coins_with_time[s].time_left
        min_time == CHOOSE m \in {tl(s) : s \in DOMAIN coins_with_time} :
                       \A s \in DOMAIN coins_with_time : m <= tl(s)
        nearest_coins == {s \in DOMAIN coins_with_time :
                             tl(s) - min_time <= TIE_TOLERANCE
                             /\ min_time - tl(s) <= TIE_TOLERANCE}
        lowest == {s \in nearest_coins :
                     \A u \in nearest_coins :
                        coins_with_time[s].rate <= coins_with_time[u].rate}
        pick == FirstOf(lowest)
    IN  [symbol |-> pick, rate |-> coins_with_time[pick].rate,
         interval |-> coins_with_time[pick].interval, time_left |-> tl(pick)]

\* find_nearest_funding_coin with every time_left read at clock reading t
find_nearest_funding_coin(eligible_coins, t) ==
    IF DOMAIN eligible_coins = {} THEN NoCoin
    ELSE NearestOf([s \in DOMAIN eligible_coins |->
                      [rate |-> eligible_coins[s].rate,
                       interval |-> eligible_coins[s].interval,
                       time_left |-> seconds_to_next_funding(
                                         eligible_coins[s].interval, t)]])

(* ------------------------------- state --------------------------------- *)
VARIABLES
    now,          \* the clock (datetime.now / time.time), whole seconds
    position,     \* gateway: LONG position per symbol, with who opened it
    stops,        \* gateway: symbols with a resting STOP_MARKET close order
    entry_data,   \* module global entry_data
    recent_exits, \* module global recent_exits
    last_report,  \* run_bot local last_report
    pc,           \* run_bot's position in its loop
    pending,      \* run_bot: positions still to visit in the for loop
    sel,          \* run_bot local symbol / best_symbol, while an entry is ahead
    current_balance, \* run_bot local current_balance, while an entry is ahead
    manual,       \* number of positions opened by hand so far
    calls,        \* number of direct calls made by the operation driver
    attempt,      \* observation: the last place_long_position call
    closes,       \* observation: close orders filled by the last square_off_all
    check,        \* observation: the last exit check of run_bot's for loop
    slept,        \* observation: the last time.sleep of run_bot
    scan,         \* observation: the last selector result and its fetch
    faults,       \* number of operations so far in which a gateway call failed
    probe         \* a function of the program applied on its own: call and result

vars == <<now, position, stops, entry_data, recent_exits, last_report, pc,
          pending, sel, current_balance, manual, calls, attempt, closes,
          check, slept, scan, faults, probe>>

NoAttempt == [symbol |-> "none", gates |-> <<>>, reason |-> "none",
              ordered |-> FALSE, filled |-> FALSE, report |-> "none",
              posNonZero |-> FALSE, posQuery |-> "none", gateTime |-> NoTime,
              exitStamp |-> NoTime, closeOrders |-> 0, slOrders |-> 0,
              invokedAt |-> NoTime, stale |-> FALSE, fromLoop |-> FALSE,
              told |-> <<>>]
NoCheck == [symbol |-> "none", at |-> NoTime, recorded |-> FALSE,
            planned |-> NoTime, due |-> FALSE, squared |-> FALSE,
            protected |-> FALSE, owner |-> "none"]
NoSleep == [d |-> 0, botOpen |-> FALSE]
NoScan == [symbol |-> "none", at |-> NoTime, cooling |-> FALSE,
           sleptSince |-> FALSE, kind |-> "none", reachable |-> TRUE,
           time_left |-> NoTime, wait_kind |-> "none", wait |-> 0]

\* an operation whose gateway calls were all answered (ok) or not: at most
\* MaxFaults operations of a run see a failing call
Faulty(ok) ==
    /\ ok \/ faults < MaxFaults
    /\ faults' = IF ok THEN faults ELSE faults + 1

allOk == faults = 0

\* no function applied on its own
NoProbe == [op |-> "none", done |-> FALSE]

NoCloses == [list |-> <<>>, error |-> FALSE, submitted |-> 0, at |-> NoTime]

BotOpen(pos) == {s \in Symbols : pos[s].owner = "bot" /\ pos[s].amt > 0}

(* ------------------------ place_long_position -------------------------- *)
\* quantity = round(capital / price, precision), in 1/1000 contract
Quantity(capital, price, precision) ==
    RoundDiv(capital * Pow10(precision), price) * Pow10(3 - precision)

\* amount = round(price * quantity, 2), in cents
Amount(price, quantity) == RoundDiv(price * quantity, 10)

\* The validation part of place_long_position (lines 206-267): the gates in
\* program order, the first failing one deciding the reason.  g holds the
\* gateway's answers, t is the clock at the call; the last three gates run
\* after the 2 s pause.
EntryGates_CooldownFirst(symbol, capital, g, pos, exits, t) ==
    IF ~check_api_connection(g.pingOk)
      THEN [gates |-> <<"connectivity">>, reason |-> "ConnectivityLost"]
    ELSE IF ~g.tickerOk
      THEN [gates |-> <<"connectivity">>, reason |-> "TradeError"]
    ELSE IF g.price <= 0
      THEN [gates |-> <<"connectivity", "price">>, reason |-> "InvalidPrice"]
    ELSE IF Quantity(capital, g.price, get_symbol_info(g.infoOk, g.info).precision)
              < get_symbol_info(g.infoOk, g.info).min_qty
      THEN [gates |-> <<"connectivity", "price", "quantity">>,
            reason |-> "QuantityBelowMinimum"]
    ELSE IF position_exists(g.posOk, pos)
      THEN [gates |-> <<"connectivity", "price", "quantity", "position">>,
            reason |-> "PositionAlreadyExists"]
    ELSE IF recently_exited(symbol, t + VALIDATION_PAUSE, exits)
      THEN [gates |-> <<"connectivity", "price", "quantity", "position", "cooldown">>,
            reason |-> "SymbolInCooldown"]
    ELSE IF get_wallet_equity(g.balOk, g.balance) < MINIMUM_BALANCE
      THEN [gates |-> <<"connectivity", "price", "quantity", "position", "cooldown",
                        "balance">>,
            reason |-> "BalanceBelowFloor"]
    ELSE [gates |-> <<"connectivity", "price", "quantity", "position", "balance",
                      "cooldown">>,
          reason |-> "pass"]

EntryGates(symbol, capital, g, pos, exits, t) ==
    IF ~check_api_connection(g.pingOk)
      THEN [gates |-> <<"connectivity">>, reason |-> "ConnectivityLost"]
    ELSE IF ~g.tickerOk
      THEN [gates |-> <<"connectivity">>, reason |-> "TradeError"]
    ELSE IF g.price <= 0
      THEN [gates |-> <<"connectivity", "price">>, reason |-> "InvalidPrice"]
    ELSE IF Quantity(capital, g.price, get_symbol_info(g.infoOk, g.info).precision)
              < get_symbol_info(g.infoOk, g.info).min_qty
      THEN [gates |-> <<"connectivity", "price", "quantity">>,
            reason |-> "QuantityBelowMinimum"]
    ELSE IF position_exists(g.posOk, pos)
      THEN [gates |-> <<"connectivity", "price", "quantity", "position">>,
            reason |-> "PositionAlreadyExists"]
    ELSE IF get_wallet_equity(g.balOk, g.balance) < MINIMUM_BALANCE
      THEN [gates |-> <<"connectivity", "price", "quantity", "position", "balance">>,
            reason |-> "BalanceBelowFloor"]
    ELSE IF recently_exited(symbol, t + VALIDATION_PAUSE, exits)
      THEN [gates |-> <<"connectivity", "price", "quantity", "position", "balance",
                        "cooldown">>,
            reason |-> "SymbolInCooldown"]
    ELSE [gates |-> <<"connectivity", "price", "quantity", "position", "balance",
                      "cooldown">>,
          reason |-> "pass"]

\* The protective stop (lines 296-308) after a filled entry: st is the state
\* with the entry already recorded.
ProtectiveStop_Rollback(symbol, slOk, st) ==
    IF slOk
    THEN [st EXCEPT !.stops = @ \cup {symbol}, !.report = "StopLossSet",
                    !.slOrders = 1]
    ELSE [st EXCEPT !.report = "NoStopLoss", !.slOrders = 1,
                    !.entry_data[symbol] = NoEntry,
                    !.position[symbol] = NoPosition,
                    !.closeOrders = 1]

ProtectiveStop(symbol, slOk, st) ==
    IF slOk
    THEN [st EXCEPT !.stops = @ \cup {symbol}, !.report = "StopLossSet",
                    !.slOrders = 1]
    ELSE [st EXCEPT !.report = "NoStopLoss", !.slOrders = 1]

\* place_long_position recording the entry before the order is confirmed
place_long_position_RecordBeforeOrder(symbol, capital, g, st, exits) ==
    LET t == st.now
        v == EntryGates(symbol, capital, g, st.position, exits, t)
        info == get_symbol_info(g.infoOk, g.info)
        quantity == Quantity(capital, g.price, info.precision)
        interval == get_funding_interval(g.histOk, FundingGap[symbol])
        exit_time == t + seconds_to_next_funding(interval, t) - EXIT_LEAD
        t2 == IF Len(v.gates) >= 4 THEN t + VALIDATION_PAUSE ELSE t
        base == [st EXCEPT !.now = t2, !.reason = v.reason, !.gates = v.gates]
        recorded == [base EXCEPT
                       !.ordered = TRUE,
                       !.entry_data[symbol] =
                           [entry_price |-> g.price, quantity |-> quantity,
                            entry_amount |-> Amount(g.price, quantity),
                            entry_time |-> t, exit_time |-> exit_time]]
    IN  IF v.reason # "pass" THEN base
        ELSE IF ~g.orderOk THEN [recorded EXCEPT !.reason = "TradeError"]
        ELSE ProtectiveStop(symbol, g.slOk,
               [recorded EXCEPT
                  !.filled = TRUE,
                  !.position[symbol] =
                      [amt |-> quantity, owner |-> "bot",
                       settle |-> t2 + seconds_to_next_funding(
                                           get_funding_interval(TRUE, FundingGap[symbol]), t2)]])

\* place_long_position(symbol, capital, rate), whole.  st carries
\* entry_data, position, stops and now, plus the counters the result reports.
place_long_position(symbol, capital, g, st, exits) ==
    LET t == st.now
        v == EntryGates(symbol, capital, g, st.position, exits, t)
        paused == Len(v.gates) >= 4
        info == get_symbol_info(g.infoOk, g.info)
        quantity == Quantity(capital, g.price, info.precision)
        interval == get_funding_interval(g.histOk, FundingGap[symbol])
        exit_time == t + seconds_to_next_funding(interval, t) - EXIT_LEAD
        t2 == IF paused THEN t + VALIDATION_PAUSE ELSE t
        base == [st EXCEPT !.now = t2, !.reason = v.reason, !.gates = v.gates]
    IN  IF v.reason # "pass" THEN base
        ELSE IF ~g.orderOk
          THEN [base EXCEPT !.reason = "TradeError", !.ordered = TRUE]
        ELSE ProtectiveStop(symbol, g.slOk,
               [base EXCEPT
                  !.ordered = TRUE, !.filled = TRUE,
                  !.position[symbol] =
                      [amt |-> quantity, owner |-> "bot",
                       settle |-> t2 + seconds_to_next_funding(
                                           get_funding_interval(TRUE, FundingGap[symbol]), t2)],
                  !.entry_data[symbol] =
                      [entry_price |-> g.price, quantity |-> quantity,
                       entry_amount |-> Amount(g.price, quantity),
                       entry_time |-> t, exit_time |-> exit_time]])

\* the gateway's answers to one place_long_position call
EntryAnswers ==
    [pingOk : BOOLEAN, tickerOk : BOOLEAN, price : Prices, infoOk : BOOLEAN,
     info : SymbolInfos, histOk : BOOLEAN, posOk : BOOLEAN, balOk : BOOLEAN,
     balance : Balances, orderOk : BOOLEAN, slOk : BOOLEAN]

\* The answers followed: at most one of the calls of one operation fails, and
\* a failed call's payload, which is not read, is fixed.
Failed(g) ==
    {c \in {"ping", "ticker", "info", "hist", "pos", "bal", "order", "sl"} :
        \/ c = "ping" /\ ~g.pingOk
        \/ c = "ticker" /\ ~g.tickerOk
        \/ c = "info" /\ ~g.infoOk
        \/ c = "hist" /\ ~g.histOk
        \/ c = "pos" /\ ~g.posOk
        \/ c = "bal" /\ ~g.balOk
        \/ c = "order" /\ ~g.orderOk
        \/ c = "sl" /\ ~g.slOk}

EntryAnswersUsed ==
    {g \in EntryAnswers :
        /\ Cardinality(Failed(g)) <= 1
        /\ (~g.infoOk => g.info = [min_qty |-> DEFAULT_MIN_QTY,
                                   precision |-> DEFAULT_PRECISION])
        /\ (~g.tickerOk => g.price = 20)
        /\ (~g.balOk => g.balance = 100)
        /\ (Failed(g) # {} => g.price # 25 /\ g.info.precision = DEFAULT_PRECISION)}

EntryAllOk(g) ==
    g.pingOk /\ g.tickerOk /\ g.infoOk /\ g.histOk /\ g.posOk /\ g.balOk
    /\ g.orderOk /\ g.slOk

\* What the gateway and the clock would answer each gate of the call, asked
\* or not: connectivity, ticker, price, quantity, position, balance,
\* cooldown, entry order
Told(symbol, capital, g, t) ==
    <<g.pingOk,
      g.tickerOk,
      g.price > 0,
      g.price > 0 /\ (IF g.infoOk
                      THEN Quantity(capital, g.price, g.info.precision) >= g.info.min_qty
                      ELSE Quantity(capital, g.price, DEFAULT_PRECISION) >= DEFAULT_MIN_QTY),
      g.posOk /\ \A s \in Symbols : position[s].amt = 0,
      g.balOk /\ g.balance >= MINIMUM_BALANCE,
      recent_exits[symbol] = NoTime
         \/ t + VALIDATION_PAUSE - recent_exits[symbol] >= COOLDOWN_MINUTES * 60,
      g.orderOk>>

\* The call as a state change, shared by run_bot and the operation driver.
PlaceLongFrom(st0, symbol, capital, g, stale, fromLoop) ==
    LET r == place_long_position(symbol, capital, g, st0, recent_exits)
    IN  /\ now' = r.now
        /\ position' = r.position
        /\ stops' = r.stops
        /\ entry_data' = r.entry_data
        /\ attempt' = [symbol |-> symbol, gates |-> r.gates, reason |-> r.reason,
                       ordered |-> r.ordered, filled |-> r.filled,
                       report |-> r.report,
                       posNonZero |-> (\E s \in Symbols : position[s].amt # 0),
                       posQuery |-> IF Len(r.gates) < 4 THEN "none"
                                    ELSE IF g.posOk THEN "ok" ELSE "fail",
                       gateTime |-> IF Len(r.gates) = 6 THEN st0.now + VALIDATION_PAUSE
                                    ELSE NoTime,
                       exitStamp |-> recent_exits[symbol],
                       closeOrders |-> r.closeOrders, slOrders |-> r.slOrders,
                       invokedAt |-> st0.now, stale |-> stale, fromLoop |-> fromLoop,
                       told |-> Told(symbol, capital, g, st0.now)]
        /\ Faulty(EntryAllOk(g))
        /\ UNCHANGED recent_exits

PlaceLong(symbol, capital, g, stale, fromLoop) ==
    PlaceLongFrom([now |-> now, position |-> position, stops |-> stops,
                   entry_data |-> entry_data, reason |-> "none", gates |-> <<>>,
                   ordered |-> FALSE, filled |-> FALSE, report |-> "none",
                   closeOrders |-> 0, slOrders |-> 0],
                  symbol, capital, g, stale, fromLoop)

(* --------------------------- square_off_all ---------------------------- *)
\* round(x, 2) of a signed quotient n / d, d > 0
RoundDivSigned(n, d) == IF n >= 0 THEN RoundDiv(n, d) ELSE 0 - RoundDiv(0 - n, d)

\* pnl_percent taken against the exit amount
PnlPercent_OfExit(pnl_usdt, entry_amount) ==
    IF entry_amount > 0
    THEN RoundDivSigned(pnl_usdt * 10000, entry_amount + pnl_usdt)
    ELSE 0

\* pnl_percent (line 354), in 1/100 of a percent; pnl and entry in cents
PnlPercent(pnl_usdt, entry_amount) ==
    IF entry_amount > 0 THEN RoundDivSigned(pnl_usdt * 10000, entry_amount) ELSE 0

\* lines 327 and 352-354: the figures of one close; entry is the record of
\* the symbol or NoEntry, amounts in cents, amt in 1/1000 contract
ExitPnl(exit_price, amt, entry) ==
    LET entry_amount == IF entry # NoEntry THEN entry.entry_amount ELSE 0
        exit_amount == Amount(exit_price, amt)
        pnl_usdt == exit_amount - entry_amount
    IN  [entry_amount |-> entry_amount, exit_amount |-> exit_amount,
         pnl_usdt |-> pnl_usdt,
         pnl_percent |-> PnlPercent(pnl_usdt, entry_amount)]

\* One pass of the for loop of square_off_all (lines 318-379) over the
\* positions of the snapshot, from index i on; an exception (ticker or close
\* order) leaves the loop with what was closed before it.
RECURSIVE SquareOffFrom(_, _, _, _)
SquareOffFrom(i, snapshot, g, st) ==
    IF i > Len(SymbolOrder) \/ st.error THEN st
    ELSE
      LET sym == SymbolOrder[i]
          amt == snapshot[sym].amt
          exit_price == g.exit_price[sym]
          figures == ExitPnl(exit_price, amt, st.entry_data[sym])
          entry_amount == figures.entry_amount
          exit_amount == figures.exit_amount
          pnl_usdt == figures.pnl_usdt
          t3 == st.now + CLOSE_PAUSE
      IN  IF amt <= 0 THEN SquareOffFrom(i + 1, snapshot, g, st)
          ELSE IF ~g.tickerOk[sym] THEN [st EXCEPT !.error = TRUE]
          ELSE IF ~g.closeOk[sym]
            THEN [st EXCEPT !.error = TRUE, !.now = t3, !.submitted = @ + 1]
          ELSE SquareOffFrom(i + 1, snapshot, g,
                 [st EXCEPT
                    !.now = t3,
                    !.submitted = @ + 1,
                    !.position[sym] = NoPosition,
                    !.stops = @ \ {sym},
                    !.recent_exits[sym] = t3,
                    !.entry_data[sym] = NoEntry,
                    !.closes = Append(@,
                        [symbol |-> sym, at |-> t3, owner |-> snapshot[sym].owner,
                         recorded |-> st.entry_data[sym] # NoEntry,
                         planned |-> st.entry_data[sym].exit_time,
                         settle |-> snapshot[sym].settle,
                         amt |-> amt, exit_price |-> exit_price,
                         entry_amount |-> entry_amount,
                         exit_amount |-> exit_amount,
                         pnl_usdt |-> pnl_usdt,
                         pnl_percent |-> figures.pnl_percent])])

\* square_off_all(), whole: the position query, then the loop
square_off_all(g, st) ==
    IF ~g.posOk THEN [st EXCEPT !.error = TRUE]
    ELSE SquareOffFrom(1, st.position, g, st)

CloseAnswers ==
    [posOk : BOOLEAN, tickerOk : [Symbols -> BOOLEAN],
     exit_price : [Symbols -> Prices \ {0}], closeOk : [Symbols -> BOOLEAN]]

\* answers whose payload is read: one per symbol holding a position
CloseAnswersUsed(pos) ==
    {g \in CloseAnswers :
        /\ \A s \in Symbols :
              pos[s].amt = 0 \/ ~g.posOk \/ ~g.tickerOk[s]
                 => g.exit_price[s] = 20 /\ g.closeOk[s]
        /\ \A s \in Symbols : pos[s].amt = 0 \/ ~g.posOk => g.tickerOk[s]}

CloseAllOk(g) ==
    g.posOk /\ \A s \in Symbols : g.tickerOk[s] /\ g.closeOk[s]

\* square_off_all leaving the entry records as they are
SquareOff_KeepsRecord(g, okBefore) ==
    LET st0 == [now |-> now, position |-> position, stops |-> stops,
                entry_data |-> entry_data, recent_exits |-> recent_exits,
                closes |-> <<>>, error |-> FALSE, submitted |-> 0]
        r == square_off_all(g, st0)
    IN  /\ now' = r.now
        /\ position' = r.position
        /\ stops' = r.stops
        /\ entry_data' = entry_data
        /\ recent_exits' = r.recent_exits
        /\ closes' = [list |-> r.closes, error |-> r.error,
                      submitted |-> r.submitted, at |-> now]
        /\ Faulty(okBefore /\ CloseAllOk(g))

\* The call as a state change, shared by run_bot and the operation driver.
SquareOff(g, okBefore) ==
    LET st0 == [now |-> now, position |-> position, stops |-> stops,
                entry_data |-> entry_data, recent_exits |-> recent_exits,
                closes |-> <<>>, error |-> FALSE, submitted |-> 0]
        r == square_off_all(g, st0)
    IN  /\ now' = r.now
        /\ position' = r.position
        /\ stops' = r.stops
        /\ entry_data' = r.entry_data
        /\ recent_exits' = r.recent_exits
        /\ closes' = [list |-> r.closes, error |-> r.error,
                      submitted |-> r.submitted, at |-> now]
        /\ Faulty(okBefore /\ CloseAllOk(g))

(* ------------------------------- run_bot ------------------------------- *)
Init ==
    /\ now \in StartTimes
    /\ position = [s \in Symbols |-> NoPosition]
    /\ stops = {}
    /\ entry_data = [s \in Symbols |-> NoEntry]
    /\ recent_exits = [s \in Symbols |-> NoTime]
    /\ last_report = now
    /\ pc = "loop"
    /\ pending = <<>>
    /\ sel = "none"
    /\ current_balance = 0
    /\ manual = 0
    /\ calls = 0
    /\ attempt = NoAttempt
    /\ closes = NoCloses
    /\ check = NoCheck
    /\ slept = NoSleep
    /\ scan = NoScan
    /\ faults = 0
    /\ probe = NoProbe

\* the LONG positions of a position query, in gateway order
RECURSIVE LongsFrom(_, _)
LongsFrom(i, pos) ==
    IF i > Len(SymbolOrder) THEN <<>>
    ELSE IF pos[SymbolOrder[i]].amt > 0
      THEN <<SymbolOrder[i]>> \o LongsFrom(i + 1, pos)
      ELSE LongsFrom(i + 1, pos)

\* the run is followed for MaxRun seconds from its start (last_report holds
\* the start until the first 12-hourly report), and past that for as long as
\* a position of the bot whose recorded exit time is reached is still open
Running ==
    /\ calls = 0
    /\ \/ now <= last_report + MaxRun
       \/ \E s \in BotOpen(position) :
             entry_data[s] # NoEntry /\ entry_data[s].exit_time <= now

\* time.sleep(d) called at clock t with the given positions
Slept(d, t, pos) == [d |-> d, botOpen |-> BotOpen(pos) # {}]

\* CheckPosition with the handler of lines 557-559 resuming without its sleep
CheckPosition_NoBackoff ==
    /\ Running /\ pc = "loop"
    /\ \E existsOk \in BOOLEAN, listOk \in BOOLEAN :
          /\ (~existsOk => listOk)
          /\ (~position_exists(existsOk, position) => listOk)
          /\ Faulty(existsOk /\ listOk)
          /\ IF ~position_exists(existsOk, position)
             THEN /\ pc' = "scan"
                  /\ UNCHANGED <<now, pending, slept>>
             ELSE IF listOk
             THEN /\ pc' = "for"
                  /\ pending' = LongsFrom(1, position)
                  /\ UNCHANGED <<now, slept>>
             ELSE /\ pc' = "loop"
                  /\ UNCHANGED <<now, pending, slept>>
    /\ attempt' = NoAttempt
    /\ closes' = NoCloses
    /\ check' = NoCheck
    /\ scan' = NoScan
    /\ UNCHANGED <<position, stops, entry_data, recent_exits, last_report, sel,
                   current_balance, manual, calls>>

    /\ UNCHANGED probe
\* lines 406-407: position_exists(), then the position list; a failing list
\* query escapes to the handler of lines 557-559
CheckPosition ==
    /\ Running /\ pc = "loop"
    /\ \E existsOk \in BOOLEAN, listOk \in BOOLEAN :
          /\ (~existsOk => listOk)
          /\ (~position_exists(existsOk, position) => listOk)
          /\ Faulty(existsOk /\ listOk)
          /\ IF ~position_exists(existsOk, position)
             THEN /\ pc' = "scan"
                  /\ UNCHANGED <<now, pending, slept>>
             ELSE IF listOk
             THEN /\ pc' = "for"
                  /\ pending' = LongsFrom(1, position)
                  /\ UNCHANGED <<now, slept>>
             ELSE /\ pc' = "loop"
                  /\ now' = now + ERROR_BACKOFF
                  /\ slept' = Slept(ERROR_BACKOFF, now, position)
                  /\ UNCHANGED pending
    \* the observations are those of the iteration under way
    /\ attempt' = NoAttempt
    /\ closes' = NoCloses
    /\ check' = NoCheck
    /\ scan' = NoScan
    /\ UNCHANGED <<position, stops, entry_data, recent_exits, last_report, sel,
                   current_balance, manual, calls>>

    /\ UNCHANGED probe
ExitCheck(sym, due, squared) ==
    [symbol |-> sym, at |-> now, recorded |-> entry_data[sym] # NoEntry,
     planned |-> entry_data[sym].exit_time, due |-> due, squared |-> squared,
     protected |-> sym \in stops, owner |-> position[sym].owner]

\* ExitDue closing a recorded position whenever it is examined
ExitDue_Early ==
    /\ Running /\ pc = "for" /\ pending # <<>>
    /\ LET sym == Head(pending) IN
          /\ entry_data[sym] # NoEntry
          /\ check' = ExitCheck(sym, TRUE, TRUE)
          /\ \E g \in CloseAnswersUsed(position) : SquareOff(g, TRUE)
    /\ pending' = <<>>
    /\ UNCHANGED <<last_report, pc, sel, current_balance, manual, calls, attempt,
                   slept, scan>>
    /\ UNCHANGED probe

\* ExitDue with run_bot ending when the close fails
ExitDue_Halt ==
    /\ Running /\ pc = "for" /\ pending # <<>>
    /\ LET sym == Head(pending) IN
          /\ entry_data[sym] # NoEntry
          /\ entry_data[sym].exit_time - now <= 0
          /\ check' = ExitCheck(sym, TRUE, TRUE)
          /\ \E g \in CloseAnswersUsed(position) : SquareOff(g, TRUE)
    /\ pending' = <<>>
    /\ pc' = IF closes'.error THEN "halt" ELSE pc
    /\ UNCHANGED <<last_report, sel, current_balance, manual, calls, attempt,
                   slept, scan>>
    /\ UNCHANGED probe

\* lines 413-421: recorded exit time reached: square_off_all(), break
ExitDue ==
    /\ Running /\ pc = "for" /\ pending # <<>>
    /\ LET sym == Head(pending) IN
          /\ entry_data[sym] # NoEntry
          /\ entry_data[sym].exit_time - now <= 0
          /\ check' = ExitCheck(sym, TRUE, TRUE)
          /\ \E g \in CloseAnswersUsed(position) : SquareOff(g, TRUE)
    /\ pending' = <<>>
    /\ UNCHANGED <<last_report, pc, sel, current_balance, manual, calls, attempt,
                   slept, scan>>

    /\ UNCHANGED probe
\* lines 422-426: sleep min(60, time_until_exit), then the next list entry
ExitWait ==
    /\ Running /\ pc = "for" /\ pending # <<>>
    /\ LET sym == Head(pending)
           time_until_exit == entry_data[sym].exit_time - now
       IN /\ entry_data[sym] # NoEntry
          /\ time_until_exit > 0
          /\ check' = ExitCheck(sym, FALSE, FALSE)
          /\ now' = now + Min(EXIT_POLL_CAP, time_until_exit)
          /\ slept' = Slept(Min(EXIT_POLL_CAP, time_until_exit), now, position)
    /\ pending' = Tail(pending)
    /\ UNCHANGED <<position, stops, entry_data, recent_exits, last_report, pc, sel,
                   current_balance, manual, calls, attempt, closes, scan, faults>>

    /\ UNCHANGED probe
\* lines 427-432: no record: close when 0 < seconds to funding <= 60
Fallback ==
    /\ Running /\ pc = "for" /\ pending # <<>>
    /\ LET sym == Head(pending) IN
          /\ entry_data[sym] = NoEntry
          /\ \E histOk \in BOOLEAN :
                LET interval == get_funding_interval(histOk, FundingGap[sym])
                    left == seconds_to_next_funding(interval, now)
                IN  IF 0 < left /\ left <= EXIT_LEAD
                    THEN /\ check' = ExitCheck(sym, TRUE, TRUE)
                         /\ \E g \in CloseAnswersUsed(position) :
                               SquareOff(g, histOk)
                         /\ pending' = <<>>
                    ELSE /\ check' = ExitCheck(sym, FALSE, FALSE)
                         /\ pending' = Tail(pending)
                         /\ Faulty(histOk)
                         /\ UNCHANGED <<now, position, stops, entry_data,
                                        recent_exits, closes>>
    /\ UNCHANGED <<last_report, pc, sel, current_balance, manual, calls, attempt,
                   slept, scan>>

    /\ UNCHANGED probe
\* lines 434-436: after the for loop, sleep 30 and start over
ForDone ==
    /\ Running /\ pc = "for" /\ pending = <<>>
    /\ now' = now + POSITION_RECHECK
    /\ slept' = Slept(POSITION_RECHECK, now, position)
    /\ pc' = "loop"
    /\ UNCHANGED <<position, stops, entry_data, recent_exits, last_report, pending,
                   sel, current_balance, manual, calls, attempt, closes, check,
                   scan, faults>>

    /\ UNCHANGED probe
\* the gateway's answers to one fetch_funding_rates call
\* (a failed mark-price call carries no rate, and its history is not asked)
MarkFail == [ok |-> FALSE, rate |-> 0]
Marks == [Symbols -> [ok : {TRUE}, rate : Rates] \cup {MarkFail}]
HistOks(marks) ==
    {h \in [Symbols -> BOOLEAN] : \A s \in Symbols : ~marks[s].ok => h[s]}
FetchAllOk(infoOk, marks, histOk) ==
    infoOk /\ \A s \in Symbols : marks[s].ok /\ histOk[s]
\* the one answer kept for a fetch whose payload is not read
Unread(marks, histOk) ==
    \A s \in Symbols : marks[s] = [ok |-> TRUE, rate |-> -2] /\ histOk[s]

\* lines 441-547: one scan, up to the sleep it ends in (the smart-wait
\* sleeps of lines 501 and 543 included)
Scan ==
    /\ Running /\ pc = "scan"
    /\ \E pingOk \in BOOLEAN, infoOk \in BOOLEAN, marks \in Marks, d \in Latency,
          balOk \in BOOLEAN, balance \in Balances :
        \E histOk \in HistOks(marks) :
          LET rates == fetch_funding_rates(infoOk, marks, histOk)
              eligible == filter_eligible_symbols(rates, FUNDING_RATE_THRESHOLD)
              t1 == now + d
              nearest == find_nearest_funding_coin(eligible, t1)
              time_left == nearest.time_left
              bal == get_wallet_equity(balOk, balance)
              seen(k, sleptSince) ==
                  [symbol |-> nearest.symbol, at |-> t1,
                   cooling |-> IF nearest = NoCoin THEN FALSE
                               ELSE recently_exited(nearest.symbol, t1, recent_exits),
                   sleptSince |-> sleptSince, kind |-> k, reachable |-> pingOk,
                   time_left |-> IF nearest = NoCoin THEN NoTime ELSE time_left,
                   wait_kind |-> "none", wait |-> 0]
          IN
          /\ (~pingOk => infoOk /\ d = 0 /\ balOk /\ balance = 100
                         /\ Unread(marks, histOk))
          /\ (~infoOk => Unread(marks, histOk))
          /\ (~balOk => balance = 100)
          /\ IF ~check_api_connection(pingOk)
             THEN /\ now' = now + API_RETRY_SLEEP
                  /\ slept' = Slept(API_RETRY_SLEEP, now, position)
                  /\ pc' = "loop"
                  /\ Faulty(FALSE)
                  /\ scan' = [NoScan EXCEPT !.kind = "scan", !.reachable = FALSE]
                  /\ UNCHANGED <<sel, current_balance>>
             ELSE IF nearest = NoCoin \/ time_left >= SMART_WAIT_LIMIT
             THEN /\ now' = t1
                  /\ pc' = "cycle_end"
                  /\ scan' = seen("scan", FALSE)
                  /\ Faulty(FetchAllOk(infoOk, marks, histOk))
                  /\ balOk /\ balance = 100
                  /\ UNCHANGED <<sel, current_balance, slept>>
             ELSE /\ current_balance' = IF bal >= MINIMUM_BALANCE /\ time_left >= ENTRY_MARK
                                      THEN bal ELSE 0
                  /\ Faulty(FetchAllOk(infoOk, marks, histOk) /\ balOk)
                  /\ IF bal < MINIMUM_BALANCE
                     THEN /\ now' = t1
                          /\ pc' = "cycle_end"
                          /\ scan' = seen("scan", FALSE)
                          /\ UNCHANGED <<sel, slept>>
                     ELSE IF time_left > RESCAN_MARK
                     THEN /\ now' = t1 + (time_left - RESCAN_MARK)
                          /\ slept' = Slept(time_left - RESCAN_MARK, t1, position)
                          /\ pc' = "rescan"
                          /\ sel' = nearest.symbol
                          /\ scan' = [seen("scan", TRUE) EXCEPT
                                         !.wait_kind = "rescan",
                                         !.wait = time_left - RESCAN_MARK]
                     ELSE IF ENTRY_MARK <= time_left /\ time_left <= RESCAN_MARK
                     THEN /\ now' = t1 + (time_left - ENTRY_MARK)
                          /\ slept' = Slept(time_left - ENTRY_MARK, t1, position)
                          /\ pc' = "enter"
                          /\ sel' = nearest.symbol
                          /\ scan' = [seen("scan", time_left - ENTRY_MARK > 0)
                                         EXCEPT !.wait_kind = "entry",
                                                !.wait = time_left - ENTRY_MARK]
                     ELSE /\ now' = t1
                          /\ pc' = "cycle_end"
                          /\ scan' = seen("scan", FALSE)
                          /\ UNCHANGED <<sel, slept>>
    /\ UNCHANGED <<position, stops, entry_data, recent_exits, last_report, pending,
                   manual, calls, attempt, closes, check>>

    /\ UNCHANGED probe
\* the re-scan taking the best of all eligible symbols, in the window or not
Rescan_NoWindow ==
    /\ Running /\ pc = "rescan"
    /\ \E infoOk \in BOOLEAN, marks \in Marks, d1 \in FetchLatency,
          d2 \in Latency :
        \E histOk \in HistOks(marks) :
          LET fresh_rates == fetch_funding_rates(infoOk, marks, histOk)
              fresh_eligible ==
                  filter_eligible_symbols(fresh_rates, FUNDING_RATE_THRESHOLD)
              t1 == now + d1
              fresh_in_window ==
                  DOMAIN fresh_eligible
              \* sorted(..., key=rate)[0]: lowest rate, first listed on a tie
              best_symbol ==
                  FirstOf({s \in fresh_in_window :
                             \A u \in fresh_in_window :
                                fresh_eligible[s].rate <= fresh_eligible[u].rate})
              best_rate == fresh_eligible[best_symbol].rate
              t2 == t1 + d2
              best_time_left ==
                  seconds_to_next_funding(fresh_eligible[best_symbol].interval, t2)
              wait_for_entry == best_time_left - ENTRY_MARK
              seen(sym, sleptSince) ==
                  [symbol |-> sym, at |-> t1,
                   cooling |-> IF sym = "none" THEN FALSE
                               ELSE recently_exited(sym, t1, recent_exits),
                   sleptSince |-> sleptSince, kind |-> "rescan",
                   reachable |-> TRUE,
                   time_left |-> IF sym = "none" THEN NoTime
                                 ELSE seconds_to_next_funding(
                                          fresh_eligible[sym].interval, t1),
                   wait_kind |-> IF sym = "none" THEN "none" ELSE "entry",
                   wait |-> IF sym = "none" THEN 0 ELSE wait_for_entry]
          IN
          /\ (~infoOk => Unread(marks, histOk))
          /\ Faulty(FetchAllOk(infoOk, marks, histOk))
          /\ IF fresh_in_window = {}
             THEN /\ d2 = 0
                  /\ now' = t1
                  /\ pc' = "cycle_end"
                  /\ scan' = seen("none", FALSE)
                  /\ sel' = "none"
                  /\ current_balance' = 0
                  /\ UNCHANGED slept
             ELSE IF wait_for_entry < 0
             THEN /\ now' = t2 + ERROR_BACKOFF
                  /\ slept' = Slept(ERROR_BACKOFF, t2, position)
                  /\ pc' = "loop"
                  /\ scan' = seen(best_symbol, FALSE)
                  /\ sel' = "none"
                  /\ current_balance' = 0
             ELSE /\ now' = t2 + wait_for_entry
                  /\ slept' = Slept(wait_for_entry, t2, position)
                  /\ pc' = "enter"
                  /\ sel' = best_symbol
                  /\ UNCHANGED current_balance
                  /\ scan' = seen(best_symbol, wait_for_entry > 0)
    /\ UNCHANGED <<position, stops, entry_data, recent_exits, last_report, pending,
                   manual, calls, attempt, closes, check>>

    /\ UNCHANGED probe
\* lines 504-537: the re-scan at the 50-minute mark, up to the sleep of line
\* 530; a negative wait_for_entry makes time.sleep raise, which escapes to
\* the handler of lines 557-559
Rescan ==
    /\ Running /\ pc = "rescan"
    /\ \E infoOk \in BOOLEAN, marks \in Marks, d1 \in FetchLatency,
          d2 \in Latency :
        \E histOk \in HistOks(marks) :
          LET fresh_rates == fetch_funding_rates(infoOk, marks, histOk)
              fresh_eligible ==
                  filter_eligible_symbols(fresh_rates, FUNDING_RATE_THRESHOLD)
              t1 == now + d1
              fresh_in_window ==
                  {s \in DOMAIN fresh_eligible :
                      /\ ENTRY_MARK <= seconds_to_next_funding(fresh_eligible[s].interval, t1)
                      /\ seconds_to_next_funding(fresh_eligible[s].interval, t1) <= RESCAN_MARK}
              \* sorted(..., key=rate)[0]: lowest rate, first listed on a tie
              best_symbol ==
                  FirstOf({s \in fresh_in_window :
                             \A u \in fresh_in_window :
                                fresh_eligible[s].rate <= fresh_eligible[u].rate})
              best_rate == fresh_eligible[best_symbol].rate
              t2 == t1 + d2
              best_time_left ==
                  seconds_to_next_funding(fresh_eligible[best_symbol].interval, t2)
              wait_for_entry == best_time_left - ENTRY_MARK
              seen(sym, sleptSince) ==
                  [symbol |-> sym, at |-> t1,
                   cooling |-> IF sym = "none" THEN FALSE
                               ELSE recently_exited(sym, t1, recent_exits),
                   sleptSince |-> sleptSince, kind |-> "rescan",
                   reachable |-> TRUE,
                   time_left |-> IF sym = "none" THEN NoTime
                                 ELSE seconds_to_next_funding(
                                          fresh_eligible[sym].interval, t1),
                   wait_kind |-> IF sym = "none" THEN "none" ELSE "entry",
                   wait |-> IF sym = "none" THEN 0 ELSE wait_for_entry]
          IN
          /\ (~infoOk => Unread(marks, histOk))
          /\ Faulty(FetchAllOk(infoOk, marks, histOk))
          /\ IF fresh_in_window = {}
             THEN /\ d2 = 0
                  /\ now' = t1
                  /\ pc' = "cycle_end"
                  /\ scan' = seen("none", FALSE)
                  /\ sel' = "none"
                  /\ current_balance' = 0
                  /\ UNCHANGED slept
             ELSE IF wait_for_entry < 0
             THEN /\ now' = t2 + ERROR_BACKOFF
                  /\ slept' = Slept(ERROR_BACKOFF, t2, position)
                  /\ pc' = "loop"
                  /\ scan' = seen(best_symbol, FALSE)
                  /\ sel' = "none"
                  /\ current_balance' = 0
             ELSE /\ now' = t2 + wait_for_entry
                  /\ slept' = Slept(wait_for_entry, t2, position)
                  /\ pc' = "enter"
                  /\ sel' = best_symbol
                  /\ UNCHANGED current_balance
                  /\ scan' = seen(best_symbol, wait_for_entry > 0)
    /\ UNCHANGED <<position, stops, entry_data, recent_exits, last_report, pending,
                   manual, calls, attempt, closes, check>>

    /\ UNCHANGED probe
\* lines 533 and 544: place_long_position for the chosen symbol
Enter ==
    /\ Running /\ pc = "enter"
    /\ \E g \in EntryAnswersUsed :
          PlaceLong(sel, current_balance, g, scan.sleptSince, TRUE)
    /\ pc' = "cycle_end"
    \* symbol and current_balance are not read again before the next scan
    /\ sel' = "none"
    /\ current_balance' = 0
    /\ UNCHANGED <<last_report, pending, manual, calls, closes, check, slept, scan>>

    /\ UNCHANGED probe
\* lines 550-555: the 12-hourly report, then the hourly sleep
CycleEnd ==
    /\ Running /\ pc = "cycle_end"
    /\ last_report' = IF now - last_report > REPORT_PERIOD THEN now ELSE last_report
    /\ now' = now + HOURLY_SLEEP
    /\ slept' = Slept(HOURLY_SLEEP, now, position)
    /\ pc' = "loop"
    /\ UNCHANGED <<position, stops, entry_data, recent_exits, pending, sel,
                   current_balance, manual, calls, attempt, closes, check, scan,
                   faults>>

    /\ UNCHANGED probe
(* ------------------------------ the gateway ---------------------------- *)
\* the resting stop order of a symbol triggers and closes its position
StopFill ==
    /\ Running
    /\ \E s \in stops :
          /\ position[s].amt > 0
          /\ position' = [position EXCEPT ![s] = NoPosition]
          /\ stops' = stops \ {s}
    /\ UNCHANGED <<now, entry_data, recent_exits, last_report, pc, pending, sel,
                   current_balance, manual, calls, attempt, closes, check, slept,
                   scan, faults>>

    /\ UNCHANGED probe
\* the account owner opens a LONG position by hand, before the bot's first
\* iteration or while it sits in a smart wait
ManualOpen ==
    /\ Running
    /\ manual < MaxManual
    /\ \/ pc = "enter"
       \/ pc = "loop" /\ now = last_report
    /\ \E s \in Symbols :
          /\ position[s].amt = 0
          /\ position' = [position EXCEPT ![s] =
                             [amt |-> ManualAmt, owner |-> "manual", settle |-> NoTime]]
    /\ manual' = manual + 1
    /\ UNCHANGED <<now, stops, entry_data, recent_exits, last_report, pc, pending,
                   sel, current_balance, calls, attempt, closes, check, slept,
                   scan, faults>>

    /\ UNCHANGED probe
Next ==
    \/ CheckPosition
    \/ ExitDue
    \/ ExitWait
    \/ Fallback
    \/ ForDone
    \/ Scan
    \/ Rescan
    \/ Enter
    \/ CycleEnd
    \/ StopFill
    \/ ManualOpen

Spec == Init /\ [][Next]_vars

\* a step of the exit check of lines 406-436: run_bot is one thread whose
\* sleeps and gateway calls return, so it is never stopped for ever at a
\* point of the check it can leave
ExitCheckStep ==
    \/ CheckPosition
    \/ ExitDue
    \/ ExitWait
    \/ Fallback
    \/ ForDone

SpecLive == Spec /\ WF_vars(ExitCheckStep)

(* -------------------------- operation driver --------------------------- *)
\* place_long_position and square_off_all called directly, in any order, by
\* a caller other than run_bot: the contract of the two operations
\* themselves.  The caller reads an operation's outcome (OpReturn) before
\* its next call, and may wait before an entry attempt.
Delays == {0, 297, 298}
\* the capital run_bot passes: a balance at or above the floor
OpsCapital == {b \in Balances : b >= MINIMUM_BALANCE}

Driving == calls < MaxOpsCalls /\ attempt = NoAttempt /\ closes = NoCloses

OpPlace ==
    /\ Driving
    /\ \E d \in Delays, capital \in OpsCapital, symbol \in Symbols, g \in EntryAnswersUsed :
          LET waited == [now |-> now + d, position |-> position, stops |-> stops,
                         entry_data |-> entry_data, reason |-> "none",
                         gates |-> <<>>, ordered |-> FALSE, filled |-> FALSE,
                         report |-> "none", closeOrders |-> 0, slOrders |-> 0]
          IN  PlaceLongFrom(waited, symbol, capital, g, FALSE, FALSE)
    /\ calls' = calls + 1
    /\ UNCHANGED <<last_report, pc, pending, sel, current_balance, manual, closes,
                   check, slept, scan>>

    /\ UNCHANGED probe
OpSquareOff ==
    /\ Driving
    /\ \E g \in CloseAnswersUsed(position) : SquareOff(g, TRUE)
    /\ calls' = calls + 1
    /\ UNCHANGED <<last_report, pc, pending, sel, current_balance, manual, attempt,
                   check, slept, scan>>

    /\ UNCHANGED probe
OpStopFill ==
    /\ Driving
    /\ \E s \in stops :
          /\ position[s].amt > 0
          /\ position' = [position EXCEPT ![s] = NoPosition]
          /\ stops' = stops \ {s}
    /\ calls' = calls + 1
    /\ UNCHANGED <<now, entry_data, recent_exits, last_report, pc, pending, sel,
                   current_balance, manual, attempt, closes, check, slept, scan,
                   faults>>

    /\ UNCHANGED probe
OpReturn ==
    /\ calls > 0
    /\ attempt # NoAttempt \/ closes # NoCloses
    /\ attempt' = NoAttempt
    /\ closes' = NoCloses
    /\ UNCHANGED <<now, position, stops, entry_data, recent_exits, last_report, pc,
                   pending, sel, current_balance, manual, calls, check, slept, scan,
                   faults>>

    /\ UNCHANGED probe
NextOps ==
    \/ OpPlace
    \/ OpSquareOff
    \/ OpStopFill
    \/ OpReturn

\* the driver starts from the initial state of the first start time
InitOps == Init /\ \A t \in StartTimes : now <= t

SpecOps == InitOps /\ [][NextOps]_vars

(* ------------------- the functions on their own ------------------------ *)
\* time_left values around the 3 s tolerance
ProbeLefts == {100, 102, 103, 104}
CoinsWithTime ==
    UNION {[D -> [rate : {-5, -4}, interval : {8}, time_left : ProbeLefts]] :
              D \in (SUBSET Symbols) \ {{}}}
RateMaps ==
    UNION {[D -> [rate : Rates, interval : {4, 8}]] : D \in SUBSET Symbols}
ProbeThresholds == {-5, -4, FUNDING_RATE_THRESHOLD}
\* times of two days: every hour, at its start, middle and end
ProbeTimes ==
    {d * 86400 + h * 3600 + m * 60 + sec :
        d \in {0, 1}, h \in 0 .. 23, m \in {0, 30, 59}, sec \in {0, 1, 59}}
ProbeSteps == {1, 60}
ProbeExitPrices == {20, 37}
ProbeAmts == {2647, 5000}
ProbeEntries ==
    {NoEntry} \cup
    {[entry_price |-> 20, quantity |-> 5000, entry_amount |-> a,
      entry_time |-> 11700, exit_time |-> 14340] : a \in {9794, 10000}}
ProbeClock == 25920
NoFigures == [entry_amount |-> 0, exit_amount |-> 0, pnl_usdt |-> 0, pnl_percent |-> 0]

Probes ==
    {[op |-> "nearest", done |-> FALSE, coins |-> c, picked |-> NoCoin] :
        c \in CoinsWithTime}
    \cup
    {[op |-> "filter", done |-> FALSE, rates |-> r, threshold |-> th,
      kept |-> [s \in {} |-> 0]] : r \in RateMaps, th \in ProbeThresholds}
    \cup
    {[op |-> "seconds", done |-> FALSE, interval |-> i, t |-> t, left |-> 0,
      prev |-> 0, ticks |-> 0] : i \in {4, 8}, t \in ProbeTimes}
    \cup
    {[op |-> "pnl", done |-> FALSE, exit_price |-> x, amt |-> a, entry |-> e,
      figures |-> NoFigures] :
        x \in ProbeExitPrices, a \in ProbeAmts, e \in ProbeEntries}
    \cup
    {[op |-> "fetch", done |-> FALSE, infoOk |-> i, marks |-> m, histOk |-> h,
      catalog |-> {}, intervals |-> [s \in {} |-> 0], picked |-> "none"] :
        i \in BOOLEAN, m \in Marks, h \in [Symbols -> BOOLEAN]}

Probing(op) ==
    /\ probe.op = op /\ ~probe.done
    /\ UNCHANGED <<now, position, stops, entry_data, recent_exits, last_report, pc,
                   pending, sel, current_balance, manual, calls, attempt, closes,
                   check, slept, scan, faults>>

FnNearest ==
    /\ Probing("nearest")
    /\ probe' = [probe EXCEPT !.done = TRUE, !.picked = NearestOf(probe.coins)]

FnFilter ==
    /\ Probing("filter")
    /\ probe' = [probe EXCEPT
                   !.done = TRUE,
                   !.kept = filter_eligible_symbols(probe.rates, probe.threshold)]

FnSeconds ==
    /\ Probing("seconds")
    /\ probe' = [probe EXCEPT
                   !.done = TRUE,
                   !.left = seconds_to_next_funding(probe.interval, probe.t)]

\* the clock advances within the settlement period and the function is asked again
FnTick ==
    /\ probe.op = "seconds" /\ probe.done /\ probe.ticks < MaxTicks
    /\ \E step \in ProbeSteps :
          /\ step < probe.left
          /\ probe' = [probe EXCEPT
                         !.t = @ + step,
                         !.prev = probe.left,
                         !.ticks = @ + 1,
                         !.left = seconds_to_next_funding(probe.interval,
                                                          probe.t + step)]
    /\ UNCHANGED <<now, position, stops, entry_data, recent_exits, last_report, pc,
                   pending, sel, current_balance, manual, calls, attempt, closes,
                   check, slept, scan, faults>>

FnPnl ==
    /\ Probing("pnl")
    /\ probe' = [probe EXCEPT
                   !.done = TRUE,
                   !.figures = ExitPnl(probe.exit_price, probe.amt, probe.entry)]

\* one scan's catalog and selection from the gateway's answers
FnFetch ==
    /\ Probing("fetch")
    /\ LET rates == fetch_funding_rates(probe.infoOk, probe.marks, probe.histOk)
           eligible == filter_eligible_symbols(rates, FUNDING_RATE_THRESHOLD)
       IN  probe' = [probe EXCEPT
                       !.done = TRUE,
                       !.catalog = DOMAIN rates,
                       !.intervals = [s \in DOMAIN rates |-> rates[s].interval],
                       !.picked = find_nearest_funding_coin(eligible, ProbeClock).symbol]

NextFn ==
    \/ FnNearest
    \/ FnFilter
    \/ FnSeconds
    \/ FnTick
    \/ FnPnl
    \/ FnFetch

InitFn ==
    /\ now = ProbeClock
    /\ position = [s \in Symbols |-> NoPosition]
    /\ stops = {}
    /\ entry_data = [s \in Symbols |-> NoEntry]
    /\ recent_exits = [s \in Symbols |-> NoTime]
    /\ last_report = now
    /\ pc = "loop"
    /\ pending = <<>>
    /\ sel = "none"
    /\ current_balance = 0
    /\ manual = 0
    /\ calls = 0
    /\ attempt = NoAttempt
    /\ closes = NoCloses
    /\ check = NoCheck
    /\ slept = NoSleep
    /\ scan = NoScan
    /\ faults = 0
    /\ probe \in Probes

SpecFn == InitFn /\ [][NextFn]_vars

(* =============================== claims ================================ *)

(* C1: at most one position opened by the bot is open at any time, and an  *)
(* entry attempt made while the gateway holds a non-zero position submits  *)
(* no entry order; when the attempt's position query reports a position or *)
(* fails, the attempt is cancelled as "position already exists".           *)
C1_SinglePosition ==
    /\ Cardinality(BotOpen(position)) <= 1
    /\ (attempt.posQuery = "fail" \/ (attempt.posQuery = "ok" /\ attempt.posNonZero))
          => attempt.reason = "PositionAlreadyExists" /\ ~attempt.ordered
    /\ attempt.posNonZero => ~attempt.ordered /\ ~attempt.filled

\* run_bot made an attempt while a position was held, and it was cancelled
C1_Witness ==
    /\ attempt.fromLoop
    /\ attempt.posNonZero
    /\ attempt.posQuery = "ok"
    /\ attempt.reason = "PositionAlreadyExists"

(* C4: the gates of place_long_position run in the order connectivity,     *)
(* price, quantity, position, balance, cooldown; the attempt stops at the  *)
(* first gate that fails, with that gate's reason, evaluating none after   *)
(* it; the entry order is submitted exactly when all six passed.           *)
GateNames == <<"connectivity", "price", "quantity", "position", "balance", "cooldown">>
GateReasons == <<"ConnectivityLost", "InvalidPrice", "QuantityBelowMinimum",
                 "PositionAlreadyExists", "BalanceBelowFloor", "SymbolInCooldown">>
\* what each of the six gates was bound to answer in the last attempt
GateTold == <<attempt.told[1], attempt.told[3], attempt.told[4], attempt.told[5],
              attempt.told[6], attempt.told[7]>>
\* the first gate bound to fail, 7 when none
FirstFailing ==
    IF \E i \in 1 .. 6 : ~GateTold[i]
    THEN CHOOSE i \in 1 .. 6 : ~GateTold[i] /\ \A k \in 1 .. (i - 1) : GateTold[k]
    ELSE 7

C4_GateOrder ==
    attempt.symbol # "none" =>
       IF attempt.told[1] /\ ~attempt.told[2]
       THEN \* the price could not be fetched: no gate after connectivity runs
            /\ attempt.gates = <<"connectivity">>
            /\ ~attempt.ordered
       ELSE /\ attempt.gates = SubSeq(GateNames, 1, Min(FirstFailing, 6))
            /\ FirstFailing <= 6 =>
                  attempt.reason = GateReasons[FirstFailing] /\ ~attempt.ordered
            /\ attempt.ordered <=> FirstFailing = 7

\* the balance gate cancelled an attempt that the cooldown gate, not
\* evaluated, would have cancelled too
C4_Witness ==
    /\ attempt.reason = "BalanceBelowFloor"
    /\ ~attempt.told[7]
    /\ attempt.gates = SubSeq(GateNames, 1, 5)

(* C5: the exit timestamp of a symbol is the time square_off_all closed    *)
(* it; an entry attempt on the symbol whose cooldown gate runs before that *)
(* time + 5 minutes is cancelled with no order, and one whose gate runs at *)
(* that time + 5 minutes or later is not cancelled by the cooldown gate.   *)
C5_Cooldown ==
    /\ \A i \in 1 .. Len(closes.list) :
          recent_exits[closes.list[i].symbol] = closes.list[i].at
    /\ (attempt.gateTime # NoTime /\ attempt.exitStamp # NoTime) =>
          /\ attempt.gateTime < attempt.exitStamp + COOLDOWN_MINUTES * 60
                => attempt.reason = "SymbolInCooldown" /\ ~attempt.ordered
          /\ attempt.gateTime >= attempt.exitStamp + COOLDOWN_MINUTES * 60
                => attempt.reason # "SymbolInCooldown"

\* an attempt whose cooldown gate ran exactly 5 minutes after the close
\* went on to the entry order
C5_Witness ==
    /\ attempt.exitStamp # NoTime
    /\ attempt.gateTime = attempt.exitStamp + COOLDOWN_MINUTES * 60
    /\ attempt.ordered

\* an attempt one second earlier was cancelled by the cooldown gate
C5_WitnessCancelled ==
    /\ attempt.exitStamp # NoTime
    /\ attempt.gateTime = attempt.exitStamp + COOLDOWN_MINUTES * 60 - 1
    /\ attempt.reason = "SymbolInCooldown"

(* C2: with every gateway call succeeding, the close order of a position   *)
(* the bot opened is submitted at or after its planned exit (settlement    *)
(* minus 60 s) and no later than its funding settlement.                   *)
C2_ExitInCloseWindow ==
    \A i \in 1 .. Len(closes.list) :
       LET c == closes.list[i] IN
       (allOk /\ manual = 0 /\ c.owner = "bot" /\ c.recorded)
          => c.planned <= c.at /\ c.at <= c.settle

(* C3: an entry order of run_bot is never placed for a selection that a    *)
(* smart-wait sleep separates from the rate fetch it was made from; rates  *)
(* are fetched and the selector re-run after the sleep.                    *)
C3_FreshSelection ==
    (attempt.fromLoop /\ attempt.ordered) => ~attempt.stale

(* C6: the symbol returned by the selector in a scan or a re-scan is never *)
(* one closed less than 5 minutes before.                                  *)
C6_NoCoolingSelected ==
    scan.symbol # "none" => ~scan.cooling

(* C7: entry_data holds at most one record, and a record only for a symbol *)
(* whose position is open; stated where run_bot has itself just found no   *)
(* position open and turns to scanning.                                    *)
C7_EntryStore ==
    pc = "scan" =>
       /\ Cardinality({s \in Symbols : entry_data[s] # NoEntry}) <= 1
       /\ \A s \in Symbols : entry_data[s] # NoEntry => position[s].amt > 0

(* C8: an open position of the bot is closed as soon as its recorded       *)
(* planned exit or the close window of its settlement is reached,          *)
(* whichever is first: with every gateway call succeeding, run_bot is      *)
(* never back at the top of its loop, the position still open, later than  *)
(* one re-check period after the first of the two.                         *)
C8_BothTriggers ==
    \A s \in BotOpen(position) :
       (pc = "loop" /\ allOk /\ manual = 0 /\ entry_data[s] # NoEntry)
          => now <= Min(entry_data[s].exit_time, position[s].settle - EXIT_LEAD)
                       + POSITION_RECHECK

(* C9: while a position opened by the bot is open, no single sleep of      *)
(* run_bot is longer than 60 seconds.                                      *)
C9_PollCap ==
    slept.botOpen => slept.d <= EXIT_POLL_CAP

(* C10: when the entry order fills and the stop order fails, the entry     *)
(* stays: its record is kept, place_long_position submits no closing       *)
(* order, and "position open, no stop loss" is reported; the unprotected   *)
(* position is closed by the exit check of run_bot once its planned exit   *)
(* is reached, and not before.                                             *)
C10_UnprotectedEntry ==
    /\ attempt.report = "NoStopLoss" =>
          /\ attempt.filled
          /\ attempt.closeOrders = 0
          /\ entry_data[attempt.symbol] # NoEntry
          /\ position[attempt.symbol].owner = "bot"
          /\ position[attempt.symbol].amt = entry_data[attempt.symbol].quantity
          /\ attempt.symbol \notin stops
    /\ (attempt.filled /\ position[attempt.symbol].amt > 0
                        /\ attempt.symbol \notin stops)
          => attempt.report = "NoStopLoss"
    /\ (check.owner = "bot" /\ check.recorded /\ ~check.protected) =>
          /\ check.squared <=> check.at >= check.planned
          /\ (check.squared /\ ~closes.error) =>
                /\ position[check.symbol] = NoPosition
                /\ entry_data[check.symbol] = NoEntry

\* a position of the bot left without a stop was closed by the exit check
C10_Witness ==
    /\ check.owner = "bot"
    /\ check.recorded
    /\ ~check.protected
    /\ check.squared
    /\ Len(closes.list) = 1
    /\ closes.list[1].symbol = check.symbol

(* C11: when the entry order is submitted and fails, the failure is        *)
(* reported as a trade error and the attempt changes nothing: no entry     *)
(* record is written, no position appears, no stop order is submitted and  *)
(* the cooldown table is as before.                                        *)
C11_FailedOrder ==
    [][(attempt' # attempt /\ attempt'.ordered /\ ~attempt'.filled) =>
          /\ attempt'.reason = "TradeError"
          /\ attempt'.slOrders = 0
          /\ attempt'.report = "none"
          /\ entry_data' = entry_data
          /\ position' = position
          /\ stops' = stops
          /\ recent_exits' = recent_exits]_vars

\* all six gates passed and the entry order was refused
C11_Witness ==
    /\ attempt.ordered
    /\ ~attempt.filled
    /\ Len(attempt.gates) = 6
    /\ attempt.reason = "TradeError"
    /\ entry_data[attempt.symbol] = NoEntry

(* C12 as stated: a failing gateway call anywhere in an iteration of       *)
(* run_bot ends the iteration in the top-level handler: a 60 s backoff,    *)
(* then the top of the loop.                                               *)
C12_AnyFailureBackoff ==
    [][faults' > faults =>
          pc' = "loop" /\ now' >= now + ERROR_BACKOFF /\ slept'.d = ERROR_BACKOFF]_vars

\* the positions of run_bot's loop
LoopPoints == {"loop", "for", "scan", "rescan", "enter", "cycle_end"}

(* C12, amended: run_bot never leaves its loop, and an iteration that is   *)
(* abandoned (a failure not handled by the operation it occurs in: the     *)
(* position list query, a negative wait; or the scan's failed ping) goes   *)
(* back to the top of the loop after a sleep of exactly 60 s, with no      *)
(* position, record, stop or cooldown changed (steps of the exchange and   *)
(* of the operator, which move neither the clock nor the failure count,    *)
(* aside).                                                                 *)
C12_LoopSurvives ==
    [][/\ pc' \in LoopPoints
       /\ (/\ pc \in {"loop", "scan", "rescan"} /\ pc' = "loop"
           /\ (faults' # faults \/ now' # now)) =>
             /\ now' - now \in {ERROR_BACKOFF + d1 + d2 :
                                    d1 \in FetchLatency, d2 \in Latency}
             /\ slept'.d = ERROR_BACKOFF
             /\ position' = position
             /\ entry_data' = entry_data
             /\ stops' = stops
             /\ recent_exits' = recent_exits]_vars

\* the position list query failed with a position of the bot open, and the
\* loop is back at its top after the backoff
C12_Witness ==
    /\ pc = "loop"
    /\ faults > 0
    /\ slept = [d |-> ERROR_BACKOFF, botOpen |-> TRUE]
    /\ BotOpen(position) # {}

(* C13: in a call of square_off_all, every symbol whose close order is     *)
(* confirmed gets its exit timestamp, taken during the call, and loses its *)
(* entry record; for every other symbol, one whose close order failed      *)
(* included, the entry record and the exit timestamp stay as they were.    *)
C13_CloseBookkeeping ==
    [][(closes' # closes /\ closes'.at # NoTime) =>
          \A s \in Symbols :
             IF position[s].amt > 0 /\ position'[s].amt = 0
             THEN /\ \E i \in 1 .. Len(closes'.list) :
                        /\ closes'.list[i].symbol = s
                        /\ recent_exits'[s] = closes'.list[i].at
                  /\ now < recent_exits'[s] /\ recent_exits'[s] <= now'
                  /\ entry_data'[s] = NoEntry
             ELSE /\ position'[s] = position[s]
                  /\ recent_exits'[s] = recent_exits[s]
                  /\ entry_data'[s] = entry_data[s]]_vars

\* the close order of a recorded position failed: record kept, no timestamp
C13_Witness ==
    /\ closes.error
    /\ closes.submitted = 1
    /\ closes.list = <<>>
    /\ \E s \in Symbols :
          /\ position[s].amt > 0
          /\ entry_data[s] # NoEntry
          /\ recent_exits[s] = NoTime

\* a recorded position was closed: record gone, timestamp set
C13_WitnessClosed ==
    /\ ~closes.error
    /\ Len(closes.list) = 1
    /\ closes.list[1].recorded
    /\ entry_data[closes.list[1].symbol] = NoEntry
    /\ recent_exits[closes.list[1].symbol] = closes.list[1].at

(* C14: a scan whose connectivity check fails is abandoned there: no rates *)
(* are fetched, nothing is selected, no entry is attempted, and run_bot is *)
(* back at the top of its loop after a sleep of 60 s.                      *)
C14_UnreachableScan ==
    (scan.kind = "scan" /\ ~scan.reachable) =>
       /\ pc = "loop"
       /\ scan.at = NoTime
       /\ scan.symbol = "none"
       /\ sel = "none"
       /\ attempt = NoAttempt
       /\ slept.d = API_RETRY_SLEEP

\* the ping of a scan failed
C14_Witness ==
    /\ scan.kind = "scan"
    /\ ~scan.reachable
    /\ pc = "loop"
    /\ slept.d = API_RETRY_SLEEP

(* C15: run_bot attempts an entry only for the symbol its last scan or     *)
(* re-scan observed with 2700 to 3000 seconds to funding, and the attempt  *)
(* is made with 2700 to 3000 seconds left; a scan whose nearest candidate  *)
(* has fewer than 2700 or at least 3600 seconds left is followed by no     *)
(* attempt in that iteration.                                              *)
C15_EntryWindow ==
    /\ pc = "enter" =>
          /\ scan.symbol = sel
          /\ ENTRY_MARK <= scan.time_left /\ scan.time_left <= RESCAN_MARK
    /\ attempt.fromLoop =>
          /\ scan.symbol = attempt.symbol
          /\ ENTRY_MARK <= scan.time_left /\ scan.time_left <= RESCAN_MARK
          /\ LET left == seconds_to_next_funding(
                            get_funding_interval(TRUE, FundingGap[attempt.symbol]),
                            attempt.invokedAt)
             IN  ENTRY_MARK <= left /\ left <= RESCAN_MARK
    /\ (/\ scan.kind = "scan" /\ scan.symbol # "none"
        /\ (scan.time_left < ENTRY_MARK \/ scan.time_left >= SMART_WAIT_LIMIT)) =>
          /\ pc \in {"cycle_end", "loop"}
          /\ attempt = NoAttempt

\* an order placed for the symbol the re-scan found in the window
C15_Witness ==
    /\ attempt.fromLoop
    /\ attempt.ordered
    /\ scan.kind = "rescan"
    /\ scan.symbol = attempt.symbol
    /\ scan.time_left = RESCAN_MARK

\* a scan whose nearest candidate was past the window: no attempt
C15_WitnessLate ==
    /\ scan.kind = "scan"
    /\ scan.symbol # "none"
    /\ scan.time_left < ENTRY_MARK
    /\ pc = "cycle_end"

(* C16: of a non-empty set of candidates the selector returns one whose    *)
(* time to funding is within 3 s of the smallest, with the most negative   *)
(* rate of all candidates within 3 s of the smallest; a candidate more     *)
(* than 3 s later is not returned, whatever its rate.                      *)
C16_TieBreak ==
    (probe.op = "nearest" /\ probe.done) =>
       LET c == probe.coins
           p == probe.picked.symbol
           least == CHOOSE m \in {c[s].time_left : s \in DOMAIN c} :
                       \A s \in DOMAIN c : m <= c[s].time_left
           near == {s \in DOMAIN c : c[s].time_left - least <= TIE_TOLERANCE}
       IN  /\ p \in near
           /\ \A u \in near : c[p].rate <= c[u].rate
           /\ probe.picked.rate = c[p].rate
           /\ probe.picked.time_left = c[p].time_left

\* a candidate 4 s later than the one returned had the more negative rate
C16_Witness ==
    /\ probe.op = "nearest" /\ probe.done
    /\ \E u \in DOMAIN probe.coins :
          /\ probe.coins[u].time_left = probe.picked.time_left + TIE_TOLERANCE + 1
          /\ probe.coins[u].rate < probe.picked.rate

\* a candidate 3 s later than the nearest was returned for its rate
C16_WitnessWithin ==
    /\ probe.op = "nearest" /\ probe.done
    /\ \E u \in DOMAIN probe.coins :
          /\ probe.picked.time_left = probe.coins[u].time_left + TIE_TOLERANCE
          /\ probe.picked.rate < probe.coins[u].rate

(* C17: filter_eligible_symbols(R, T) is R restricted to the symbols whose *)
(* rate is at most T, a rate equal to T included, each with its rate and   *)
(* interval as in R.                                                       *)
C17_FilterExact ==
    (probe.op = "filter" /\ probe.done) =>
       /\ DOMAIN probe.kept =
             {s \in DOMAIN probe.rates : probe.rates[s].rate <= probe.threshold}
       /\ \A s \in DOMAIN probe.kept :
             /\ probe.kept[s].rate = probe.rates[s].rate
             /\ probe.kept[s].interval = probe.rates[s].interval

\* one symbol kept with its rate at the threshold, the other dropped
C17_Witness ==
    /\ probe.op = "filter" /\ probe.done
    /\ \E s \in DOMAIN probe.kept : probe.kept[s].rate = probe.threshold
    /\ DOMAIN probe.kept # DOMAIN probe.rates

(* C18: for interval 4 or 8 and any time, seconds_to_next_funding is       *)
(* greater than 0 and at most interval * 3600, the time it leads to is a   *)
(* UTC hour that is a multiple of the interval (00:00 of the next day      *)
(* after the last one), and asked again later in the same period it        *)
(* returns less, by the time that passed.                                  *)
C18_SecondsToFunding ==
    (probe.op = "seconds" /\ probe.done) =>
       /\ 0 < probe.left
       /\ probe.left <= probe.interval * 3600
       /\ (probe.t + probe.left) % (probe.interval * 3600) = 0
       /\ probe.ticks > 0 =>
             /\ probe.left < probe.prev
             /\ \E step \in ProbeSteps : probe.left = probe.prev - step

\* asked twice more in the last period of a day: the time to 00:00
C18_Witness ==
    /\ probe.op = "seconds" /\ probe.done
    /\ probe.ticks = MaxTicks
    /\ probe.interval = 8
    /\ probe.t % 86400 > 16 * 3600
    /\ (probe.t + probe.left) % 86400 = 0

\* asked exactly at a settlement: the whole interval
C18_WitnessBoundary ==
    /\ probe.op = "seconds" /\ probe.done
    /\ probe.t % (probe.interval * 3600) = 0
    /\ probe.left = probe.interval * 3600

(* C19 as stated: the realized P&L is exit price times quantity minus the  *)
(* entry amount, the percentage is the P&L over the entry amount times     *)
(* 100, and 0 when the entry amount is 0.  Amounts in cents, quantity in   *)
(* 1/1000, percentage in 1/100.                                            *)
C19_PnlExact ==
    (probe.op = "pnl" /\ probe.done) =>
       LET f == probe.figures IN
       /\ f.pnl_usdt * 10 = probe.exit_price * probe.amt - f.entry_amount * 10
       /\ IF f.entry_amount = 0 THEN f.pnl_percent = 0
          ELSE f.pnl_percent * f.entry_amount = f.pnl_usdt * 10000

(* C19, amended: the exit amount is exit price times quantity rounded to   *)
(* the cent, the realized P&L is the exit amount minus the recorded entry  *)
(* amount (0 without a record), the percentage is the P&L over the entry   *)
(* amount times 100 rounded to 2 decimals, and 0 when the entry amount is  *)
(* 0; nothing is divided by 0.                                             *)
C19_PnlRounded ==
    (probe.op = "pnl" /\ probe.done) =>
       LET f == probe.figures
           exact == probe.exit_price * probe.amt
           off == f.exit_amount * 10 - exact
           pct == f.pnl_percent * f.entry_amount - f.pnl_usdt * 10000
       IN
       /\ f.entry_amount = (IF probe.entry = NoEntry THEN 0
                            ELSE probe.entry.entry_amount)
       /\ 0 - 5 <= off /\ off <= 5
       /\ f.pnl_usdt = f.exit_amount - f.entry_amount
       /\ IF f.entry_amount = 0 THEN f.pnl_percent = 0
          ELSE 0 - f.entry_amount <= 2 * pct /\ 2 * pct <= f.entry_amount

\* a close whose exit amount was rounded to the cent, with a loss
C19_Witness ==
    /\ probe.op = "pnl" /\ probe.done
    /\ probe.entry # NoEntry
    /\ (probe.exit_price * probe.amt) % 10 # 0
    /\ probe.figures.pnl_usdt < 0
    /\ probe.figures.pnl_percent < 0

\* a close without a record: the percentage is 0
C19_WitnessNoRecord ==
    /\ probe.op = "pnl" /\ probe.done
    /\ probe.entry = NoEntry
    /\ probe.figures.pnl_usdt > 0
    /\ probe.figures.pnl_percent = 0

(* C20: a symbol whose mark-price call or funding-history call fails       *)
(* during a scan is not in the scan's catalog and is not selected, and     *)
(* every symbol whose calls both succeed is in the catalog.                *)
C20_FailedFetchAbsent ==
    (probe.op = "fetch" /\ probe.done /\ probe.infoOk) =>
       \A s \in Symbols :
          IF probe.marks[s].ok /\ probe.histOk[s]
          THEN s \in probe.catalog
          ELSE s \notin probe.catalog /\ probe.picked # s

\* what the code does: a failed history call leaves the symbol in the
\* catalog with interval 8; only a failed mark-price call takes it out
C20_HistoryDefault ==
    (probe.op = "fetch" /\ probe.done /\ probe.infoOk) =>
       \A s \in Symbols :
          /\ s \in probe.catalog <=> probe.marks[s].ok
          /\ (s \in probe.catalog /\ ~probe.histOk[s]) => probe.intervals[s] = 8

(* C21: run_bot calls square_off_all only from an exit check whose trigger *)
(* holds: the recorded exit time of the position examined is reached, or   *)
(* the position has no record and 0 < seconds to funding <= 60 for the     *)
(* interval detected; no close order of a recorded position is submitted   *)
(* before its recorded exit time.                                          *)
C21_NoEarlyClose ==
    [][/\ (closes' # closes /\ closes'.at # NoTime)
            => /\ check'.squared /\ check'.due
               /\ check'.at = closes'.at
       /\ (check' # check /\ check'.squared)
            => \/ /\ check'.recorded
                  /\ check'.planned - check'.at <= 0
               \/ /\ ~check'.recorded
                  /\ \E histOk \in BOOLEAN :
                        LET left == seconds_to_next_funding(
                                        get_funding_interval(
                                            histOk, FundingGap[check'.symbol]),
                                        check'.at)
                        IN  0 < left /\ left <= EXIT_LEAD
       /\ \A i \in 1 .. Len(closes'.list) :
             closes'.list[i].recorded
                => closes'.list[i].planned <= closes'.at]_vars

\* the recorded exit time is reached and the close order is submitted
C21_Witness ==
    /\ check.squared /\ check.recorded
    /\ check.planned <= check.at
    /\ Len(closes.list) = 1
    /\ closes.list[1].symbol = check.symbol
    /\ closes.list[1].recorded

\* a position without a record is closed in the last minute before funding
C21_WitnessFallback ==
    /\ check.squared /\ ~check.recorded
    /\ Len(closes.list) = 1
    /\ closes.list[1].symbol = check.symbol
    /\ closes.at = check.at

\* a recorded position examined before its exit time: no close is called
C21_WitnessWaiting ==
    /\ check.recorded /\ ~check.squared
    /\ check.planned > check.at
    /\ closes = NoCloses
    /\ position[check.symbol].amt > 0

(* C22: a position of the bot whose recorded exit time is reached is       *)
(* eventually closed: with the gateway failing only finitely often, the    *)
(* loop comes back to the exit check and calls square_off_all again until  *)
(* the position is gone, and a position closed by that call has its        *)
(* record discarded.                                                       *)
C22_EventuallyClosed ==
    \A s \in Symbols :
       (/\ position[s].owner = "bot" /\ position[s].amt > 0
        /\ entry_data[s] # NoEntry /\ entry_data[s].exit_time <= now)
         ~> (/\ position[s].amt = 0
             /\ (\E i \in 1 .. Len(closes.list) : closes.list[i].symbol = s)
                   => entry_data[s] = NoEntry)

\* a close that failed in one iteration is made again, and succeeds, in the
\* next: the position is gone and its record discarded
C22_Witness ==
    /\ faults > 0
    /\ check.squared /\ check.recorded /\ check.owner = "bot"
    /\ check.planned + POSITION_RECHECK + CLOSE_PAUSE <= check.at
    /\ slept = [d |-> POSITION_RECHECK, botOpen |-> TRUE]
    /\ Len(closes.list) = 1 /\ closes.list[1].symbol = check.symbol
    /\ position[check.symbol].amt = 0
    /\ entry_data[check.symbol] = NoEntry

(* C23: every smart-wait duration run_bot computes is bounded and not      *)
(* negative: the wait to the re-scan mark lies in (0, 600) seconds and a   *)
(* wait to the entry mark in [0, 300] seconds, in the re-scan branch too.  *)
C23_WaitBounds ==
    /\ scan.wait_kind = "rescan"
          => 0 < scan.wait /\ scan.wait < SMART_WAIT_LIMIT - RESCAN_MARK
    /\ scan.wait_kind = "entry"
          => 0 <= scan.wait /\ scan.wait <= RESCAN_MARK - ENTRY_MARK

====
